---- MODULE Spec2Model ----
(***************************************************************************)
(* State-machine model of the router in src/src/router.tsx (lines 1-765):  *)
(* hierarchy compilation, matching, the router state transition function,   *)
(* the per-route preload pipeline (guards, resolver groups), the            *)
(* incremental per-view preload driven by mounted route wrappers and the    *)
(* eager full-path preload (preloadPath), the history sync of              *)
(* useLocationSync and its popstate subscription, and compilation and       *)
(* matching as functions of a tree and a pathname.                          *)
(*                                                                          *)
(* Strings that the code inspects character by character (path templates,   *)
(* pathnames, search strings) are sequences of one-character strings.       *)
(* Route ids and resolver keys are opaque and are plain strings.            *)
(***************************************************************************)
EXTENDS Integers, Sequences, FiniteSets, TLC

VARIABLES
    routerState,      \* the RouterState held by the Router component (or preloadPath's local)
    browserLocation,  \* window.location (pathname, search)
    preloads,         \* every preloadRoute call made so far, with its promises
    componentCache,   \* useComponentCache: route id -> mounted wrapper
    crashed,          \* an error was thrown while computing or rendering a state
    pathRun,          \* the activation record of preloadPath
    pushed,           \* the step just taken called window.history.pushState
    popstateListeners,         \* the listeners of window's popstate event, in the order added
    previousPopstateListener   \* previousPopstateListener.current of useLocationSync

vars == <<routerState, browserLocation, preloads, componentCache, crashed, pathRun,
         pushed, popstateListeners, previousPopstateListener>>

----------------------------------------------------------------------------
(* Bounds of the model *)

\* at most this many preloadRoute calls are made by mounted views in one run
MaxPreloads == 4

----------------------------------------------------------------------------
(* JavaScript values *)

Undefined == [defined |-> FALSE]
Def(v) == [defined |-> TRUE, value |-> v]

\* an object with no keys
EmptyObject == << >>

\* {...obj, [key]: value}
ObjectSet(obj, key, value) == (key :> value) @@ obj

----------------------------------------------------------------------------
(* The declared route tree.  guards is the length of route.guards (each     *)
(* guard is an opaque asynchronous function); resolvers is the ordered list *)
(* of resolver groups, each group given by its set of keys.  id = "" says   *)
(* the declaration carries no id yet; name labels the declaration and is    *)
(* what nanoid() is taken to generate for it.                               *)

Route(name, match, children, guards, resolvers) ==
    [id |-> "", name |-> name, match |-> match, hasChildren |-> FALSE,
     children |-> << >>, hasComponent |-> TRUE, guards |-> guards,
     resolvers |-> resolvers]

Parent(name, match, children, guards, resolvers) ==
    [id |-> "", name |-> name, match |-> match, hasChildren |-> TRUE,
     children |-> children, hasComponent |-> FALSE, guards |-> guards,
     resolvers |-> resolvers]

\* the tree given to <Router routes={..}/>:
\*   /a (two guards) > /b (nothing to preload) > /c (one resolver) | /d (one guard)
\*   * (nothing to preload)
DeclaredRoutes ==
    <<Parent("A", <<"/", "a">>,
          <<Parent("B", <<"/", "b">>,
                <<Route("C", <<"/", "c">>, << >>, 0, <<{"x"}>>),
                  Route("D", <<"/", "d">>, << >>, 1, << >>)>>,
                0, << >>)>>,
          2, << >>),
      Route("W", <<"*">>, << >>, 0, << >>)>>

\* the tree given to preloadPath:
\*   /a (two guards) > /b (groups {x, y} then {x}) > /c (one guard, one resolver) | /d
\*   * (nothing to preload)
EagerRoutes ==
    <<Parent("A", <<"/", "a">>,
          <<Parent("B", <<"/", "b">>,
                <<Route("C", <<"/", "c">>, << >>, 1, <<{"x", "y"}>>),
                  Route("D", <<"/", "d">>, << >>, 0, << >>)>>,
                0, <<{"x", "y"}, {"x"}>>)>>,
          2, << >>),
      Route("W", <<"*">>, << >>, 0, << >>)>>

\* pathnames the browser is sent to
PathABC == <<"/", "a", "/", "b", "/", "c">>
PathABD == <<"/", "a", "/", "b", "/", "d">>
PathA == <<"/", "a">>
PathZ == <<"/", "z">>
Pathnames == {PathABC, PathABD, PathA, PathZ}

\* where a guard or resolver redirects to
RedirectTargets == {PathZ}

----------------------------------------------------------------------------
(* HELPERS *)

\* a variant of the merge that follows: left + right, whatever the slashes
mergePathsConcatenated(left, right) == left \o right

mergePaths(left, right) ==
    LET leftSlash == Len(left) > 0 /\ left[Len(left)] = "/"
        rightSlash == Len(right) > 0 /\ right[1] = "/"
    IN  IF leftSlash /\ rightSlash THEN left \o Tail(right)
        ELSE IF (leftSlash /\ ~rightSlash) \/ (~leftSlash /\ rightSlash)
             THEN left \o right
        ELSE left \o <<"/">> \o right

\* map[key] = value on a JavaScript object: an existing key keeps its place
\* in the enumeration order, a new key goes last
MapSet(map, key, value) ==
    IF \E i \in 1..Len(map) : map[i].key = key
    THEN [i \in 1..Len(map) |->
            IF map[i].key = key THEN [key |-> key, value |-> value] ELSE map[i]]
    ELSE Append(map, [key |-> key, value |-> value])

\* string.split("/")
RECURSIVE Split(_)
Split(s) ==
    IF \A i \in 1..Len(s) : s[i] # "/" THEN <<s>>
    ELSE LET i == CHOOSE j \in 1..Len(s) :
                      s[j] = "/" /\ \A k \in 1..(j - 1) : s[k] # "/"
         IN  <<SubSeq(s, 1, i - 1)>> \o Split(SubSeq(s, i + 1, Len(s)))

IsParam(segment) == Len(segment) > 1 /\ segment[1] = ":"

\* pathToRegexp(matchPath, keys).exec(path) and the params built from keys
\* the regular expression of template segments ts tried on path segments ps:
\* a literal segment matches itself, a :name segment a non-empty segment,
\* and the path may end with one more slash than the template.
\* path-to-regexp 6 reads "*" as a modifier: a template with a bare "*"
\* makes pathToRegexp throw a TypeError (threw)
RegexExec(ps, ts) ==
    LET ok == /\ \/ Len(ps) = Len(ts)
                 \/ Len(ps) = Len(ts) + 1 /\ ps[Len(ps)] = << >>
              /\ \A i \in 1..Len(ts) :
                    IF IsParam(ts[i]) THEN Len(ps[i]) > 0 ELSE ps[i] = ts[i]
        names == {Tail(ts[i]) : i \in {j \in 1..Len(ts) : IsParam(ts[j])}}
    IN  IF \E i \in 1..Len(ts) : ts[i] = <<"*">>
        THEN [matched |-> FALSE, params |-> Undefined, threw |-> TRUE]
        ELSE IF ~ok THEN [matched |-> FALSE, params |-> Undefined, threw |-> FALSE]
        ELSE [matched |-> TRUE, threw |-> FALSE,
              params |-> Def([n \in names |->
                  ps[CHOOSE i \in 1..Len(ts) : IsParam(ts[i]) /\ Tail(ts[i]) = n]])]

matchesRegex(path, matchPath) == RegexExec(Split(path), Split(matchPath))

RECURSIVE MatchFrom(_, _, _)

\* if (regexMatch) return { hierarchy, params }, else the loop goes on;
\* threw: matchesRegex did not return
MatchOrNext(path, hierarchyMap, i, m) ==
    IF m.threw
    THEN [hierarchy |-> << >>, params |-> Undefined, threw |-> TRUE]
    ELSE IF m.matched
    THEN [hierarchy |-> hierarchyMap[i].value, params |-> m.params, threw |-> FALSE]
    ELSE MatchFrom(path, hierarchyMap, i + 1)

\* for (const [matchPath, hierarchy] of Object.entries(hierarchyMap))
MatchFrom(path, hierarchyMap, i) ==
    IF i > Len(hierarchyMap)
    THEN [hierarchy |-> << >>, params |-> Undefined, threw |-> FALSE]
    ELSE IF hierarchyMap[i].key = <<"*">>
    THEN [hierarchy |-> hierarchyMap[i].value, params |-> Undefined, threw |-> FALSE]
    ELSE MatchOrNext(path, hierarchyMap, i, matchesRegex(path, hierarchyMap[i].key))

\* the first entry, in the map's enumeration order, that matches the path
matchHierarchy(path, hierarchyMap) == MatchFrom(path, hierarchyMap, 1)

needsPreloading(route) ==
    LET hasGuards == route.guards > 0
        hasResolvers == Len(route.resolvers) > 0
    IN  hasGuards \/ hasResolvers

RECURSIVE buildHierarchyMap(_)
RECURSIVE BuildFrom(_, _, _)
RECURSIVE MergeChildMap(_, _, _, _)

\* for (const [childMatch, childHierarchy] of Object.entries(childMap))
MergeChildMap(route, childMap, j, map) ==
    IF j > Len(childMap) THEN map
    ELSE MergeChildMap(route, childMap, j + 1,
            MapSet(map, mergePaths(route.match, childMap[j].key),
                   <<route.id>> \o childMap[j].value))

\* for (const route of routes)
BuildFrom(routes, i, map) ==
    IF i > Len(routes) THEN map
    ELSE LET route == routes[i]
             withChildren ==
                 IF route.hasChildren
                 THEN MergeChildMap(route, buildHierarchyMap(route.children), 1, map)
                 ELSE map
         IN  BuildFrom(routes, i + 1, MapSet(withChildren, route.match, <<route.id>>))

buildHierarchyMap(routes) == BuildFrom(routes, 1, << >>)

\* nanoid(): a fresh id, distinct for every declaration
nanoid(route) == route.name

\* a variant of the tagging that follows: id: nanoid() for every declaration,
\* whether or not it carries an id
RECURSIVE addIdsToRoutesAnew(_)
addIdsToRoutesAnew(routes) ==
    [i \in 1..Len(routes) |->
        IF routes[i].hasChildren
        THEN [routes[i] EXCEPT !.children = addIdsToRoutesAnew(routes[i].children),
                               !.id = nanoid(routes[i])]
        ELSE [routes[i] EXCEPT !.id = nanoid(routes[i])]]

RECURSIVE addIdsToRoutes(_)
addIdsToRoutes(routes) ==
    [i \in 1..Len(routes) |->
        LET route == routes[i]
            id == IF route.id # "" THEN route.id ELSE nanoid(route)
        IN  IF route.hasChildren
            THEN [route EXCEPT !.children = addIdsToRoutes(route.children), !.id = id]
            ELSE [route EXCEPT !.id = id]]

RECURSIVE mapHierarchyToRoutes(_, _)
RECURSIVE MapRoutesFrom(_, _, _, _, _)

\* routeList.push(route); routeList = routeList.concat(childRoutes)
ConcatChildRoutes(acc, route, childRoutes) ==
    [ok |-> childRoutes.ok, list |-> Append(acc.list, route) \o childRoutes.list]

\* for (const route of routes); ok = FALSE is the thrown
\* 'Hierachy does not match routes object' error
MapRoutesFrom(hierarchy, currentHierarchy, routes, i, acc) ==
    IF ~acc.ok \/ i > Len(routes) THEN acc
    ELSE LET route == routes[i]
         IN  IF Len(hierarchy) > 0 /\ route.id = hierarchy[1]
             THEN IF route.hasChildren /\ Len(currentHierarchy) = 0
                  THEN [ok |-> FALSE, list |-> Append(acc.list, route)]
                  ELSE IF ~route.hasChildren /\ Len(currentHierarchy) > 0
                  THEN [ok |-> FALSE, list |-> Append(acc.list, route)]
                  ELSE IF route.hasChildren
                  THEN MapRoutesFrom(hierarchy, currentHierarchy, routes, i + 1,
                           ConcatChildRoutes(acc, route,
                               mapHierarchyToRoutes(currentHierarchy, route.children)))
                  ELSE MapRoutesFrom(hierarchy, currentHierarchy, routes, i + 1,
                           [acc EXCEPT !.list = Append(@, route)])
             ELSE MapRoutesFrom(hierarchy, currentHierarchy, routes, i + 1, acc)

mapHierarchyToRoutes(hierarchy, routes) ==
    MapRoutesFrom(hierarchy,
                  IF Len(hierarchy) > 0 THEN Tail(hierarchy) ELSE << >>,
                  routes, 1, [ok |-> TRUE, list |-> << >>])

\* the set of ids of a hierarchy (hierarchy.includes(id))
Ids(hierarchy) == {hierarchy[i] : i \in 1..Len(hierarchy)}

\* a variant of the entry that follows: a route that needs no preloading is
\* entered as completed
FreshRouteStateCompleted(route) ==
    [loading |-> needsPreloading(route), resolvedData |-> Def(EmptyObject),
     completed |-> ~needsPreloading(route)]

\* the RouteState computeState gives an id that enters the hierarchy
FreshRouteState(route) ==
    [loading |-> needsPreloading(route), resolvedData |-> Def(EmptyObject),
     completed |-> FALSE]

\* a variant of the copy that follows: the previous routeStates are not read,
\* every id of the hierarchy starts anew
CopyNoRouteStates(previous, hierarchy) == EmptyObject

\* routeStates after "Copy routeStates if the route still exists in the hierarchy"
CopyRouteStates(previous, hierarchy) ==
    LET old == IF previous.defined THEN previous.value.routeStates ELSE EmptyObject
    IN  [id \in {k \in DOMAIN old : k \in Ids(hierarchy)} |-> old[id]]

\* routeStates after "Init new routeStates"
RECURSIVE InitRouteStates(_, _, _)
InitRouteStates(routeList, i, routeStates) ==
    IF i > Len(routeList) THEN routeStates
    ELSE LET route == routeList[i]
         IN  InitRouteStates(routeList, i + 1,
                IF route.id \in DOMAIN routeStates THEN routeStates
                ELSE ObjectSet(routeStates, route.id, FreshRouteState(route)))

\* the object routerStateFromLocation returns; ok = FALSE: matchHierarchy
\* (error "TypeError") or mapHierarchyToRoutes (error "HierarchyMismatch")
\* threw.  previous is Undefined or Def(state)
RouterStateOf(routes, location, previous, hierarchyMap, currentMatch, routeList) ==
    [ok |-> routeList.ok /\ ~currentMatch.threw,
     error |-> IF currentMatch.threw THEN "TypeError"
               ELSE IF ~routeList.ok THEN "HierarchyMismatch"
               ELSE "none",
     state |-> [routes |-> routes,
                location |-> location,
                currentMatch |-> [hierarchy |-> currentMatch.hierarchy,
                                  params |-> currentMatch.params],
                hierarchyMap |-> hierarchyMap,
                routeStates |->
                    InitRouteStates(routeList.list, 1,
                        CopyRouteStates(previous, currentMatch.hierarchy)),
                pathname |-> Undefined,
                search |-> Undefined]]

MatchedState(routes, location, previous, hierarchyMap, currentMatch) ==
    RouterStateOf(routes, location, previous, hierarchyMap, currentMatch,
                  mapHierarchyToRoutes(currentMatch.hierarchy, routes))

CompiledState(routes, location, previous, hierarchyMap) ==
    MatchedState(routes, location, previous, hierarchyMap,
                 matchHierarchy(location.pathname, hierarchyMap))

routerStateFromLocation(routes, location, previous) ==
    CompiledState(routes, location, previous, buildHierarchyMap(routes))

\* a variant of the helper that follows: "?" is put in front of every string
buildSearchStringAlwaysPrefixed(search) == <<"?">> \o search

\* the string case of buildSearchString
buildSearchString(search) ==
    IF Len(search) > 0 /\ search[1] = "?" THEN search ELSE <<"?">> \o search

----------------------------------------------------------------------------
(* The preload pipeline: preloadRoute and its promises.  A guard or         *)
(* resolver is "idle" (not invoked), "inflight" (invoked, promise pending), *)
(* "resolved" or "rejected".                                                *)

\* the value the resolver declared under key in group g returns when it is
\* invoked by the preloadRoute call numbered call: a resolver is an arbitrary
\* function, two invocations need not return the same value
ResolverResult(call, g, key) == [call |-> call, group |-> g, key |-> key]

\* a variant of the guard chain that follows: the reducer does not wait for
\* prom, every guard is invoked when the chain is built
GuardsAllInvokedAtStart(route) ==
    [i \in 1..route.guards |-> "inflight"]

\* guards.reduce((prom, guard) => prom.then(() => guard(..)), Promise.resolve()):
\* only the first guard is invoked when the chain is built
GuardsAtStart(route) ==
    [i \in 1..route.guards |-> IF i = 1 THEN "inflight" ELSE "idle"]

\* a variant of the step that follows: the chain stops, guard i + 1 is not
\* invoked
GuardsAfterResolveStop(guards, i) ==
    [guards EXCEPT ![i] = "resolved"]

\* the guard chain after guard i resolved: prom.then invokes guard i + 1
GuardsAfterResolve(guards, i) ==
    [j \in 1..Len(guards) |->
        IF j = i THEN "resolved"
        ELSE IF j = i + 1 THEN "inflight"
        ELSE guards[j]]

\* resolvers.reduce((prom, resolverObject) => ..): the reducer never waits for
\* prom, so building the chain invokes every resolver of every group
ResolversAtStart(route) ==
    [g \in 1..Len(route.resolvers) |-> [key \in route.resolvers[g] |-> "inflight"]]

\* each group's reducer call has its own resolvedData object
ResolvedDataAtStart(route) ==
    [g \in 1..Len(route.resolvers) |-> EmptyObject]

preloadRoute(route, owner) ==
    [route |-> route.id,
     owner |-> owner,
     guards |-> GuardsAtStart(route),
     resolvers |-> ResolversAtStart(route),
     resolvedData |-> ResolvedDataAtStart(route),
     wrote |-> FALSE,
     isCancelled |-> FALSE]

PromiseAll(statuses) ==
    IF \E key \in DOMAIN statuses : statuses[key] = "rejected" THEN "rejected"
    ELSE IF \A key \in DOMAIN statuses : statuses[key] = "resolved" THEN "resolved"
    ELSE "pending"

guardPromise(p) == PromiseAll(p.guards)

\* the value reduce returns: the promise built for the last group
resolvePromise(p) ==
    IF Len(p.resolvers) = 0 THEN "resolved"
    ELSE PromiseAll(p.resolvers[Len(p.resolvers)])

\* what resolvePromise resolves with
ResolvePromiseValue(p) ==
    IF Len(p.resolvers) = 0 THEN Undefined
    ELSE Def(p.resolvedData[Len(p.resolvedData)])

\* guardPromise.then(() => resolvePromise)
preloadPromise(p) ==
    IF guardPromise(p) = "resolved" THEN resolvePromise(p) ELSE guardPromise(p)

\* a variant of the callback that follows: no then-callback is attached,
\* nothing is written when preloadPromise resolves
CompletionNeverWrites(p) == FALSE

\* preloadPromise.then((resolvedData) => setRouteState(..)) is attached to
\* preloadPromise itself, not to the cancellable wrapper
CompletionWrites(p) == TRUE

\* a variant of the state that follows: the write clears loading only
CompletedRouteStateNotCompleted(p) ==
    [loading |-> FALSE, resolvedData |-> ResolvePromiseValue(p), completed |-> FALSE]

\* setRouteState({ loading: false, resolvedData, completed: true })
CompletedRouteState(p) ==
    [loading |-> FALSE, resolvedData |-> ResolvePromiseValue(p), completed |-> TRUE]

\* a variant of the write that follows: routeStates: {[route.id]: state},
\* without the spread of old.routeStates
setRouteStateAlone(state, id, routeState) ==
    [state EXCEPT !.routeStates = (id :> routeState)]

\* setRouteState: {...old, routeStates: {...old.routeStates, [route.id]: state}}
\* (useRouteState) and routerState.routeStates[route.id] = state (preloadPath)
setRouteState(state, id, routeState) ==
    [state EXCEPT !.routeStates = ObjectSet(@, id, routeState)]

GuardInFlight(p) == \E g \in 1..Len(p.guards) : p.guards[g] = "inflight"

ResolverInFlight(p) ==
    \E g \in 1..Len(p.resolvers) : \E key \in DOMAIN p.resolvers[g] :
        p.resolvers[g][key] = "inflight"

InFlight(p) == GuardInFlight(p) \/ ResolverInFlight(p)

----------------------------------------------------------------------------
(* HOOKS: location changer and view composer *)

\* a variant of the setter that follows: a search that is not supplied is
\* reset to '' instead of being kept
locationSetterResetsSearch(oldLocation, params) ==
    [pathname |-> IF params.pathname.defined /\ Len(params.pathname.value) > 0
                  THEN params.pathname.value ELSE oldLocation.pathname,
     search |-> IF params.search.defined /\ Len(params.search.value) > 0
                THEN buildSearchString(params.search.value) ELSE << >>]

\* locationSetter: the Partial<RouterLocation> merged into the old location
locationSetter(oldLocation, params) ==
    LET withSearch ==
            IF params.search.defined /\ Len(params.search.value) > 0
            THEN [oldLocation EXCEPT !.search = buildSearchString(params.search.value)]
            ELSE oldLocation
    IN  IF params.pathname.defined /\ Len(params.pathname.value) > 0
        THEN [withSearch EXCEPT !.pathname = params.pathname.value]
        ELSE withSearch

\* useEffect of useRoutePreload for the wrappers mounted by one commit; effects
\* run leaf first.  A wrapper records the preload its effect started (0: none)
RECURSIVE MountFrom(_, _, _, _, _)
MountFrom(routeList, i, state, cache, pre) ==
    IF i = 0 THEN [componentCache |-> cache, preloads |-> pre]
    ELSE LET route == routeList[i]
         IN  IF route.id \in DOMAIN cache
             THEN MountFrom(routeList, i - 1, state, cache, pre)
             ELSE IF state.routeStates[route.id].completed
             THEN MountFrom(routeList, i - 1, state,
                            ObjectSet(cache, route.id, [preload |-> 0]), pre)
             ELSE MountFrom(routeList, i - 1, state,
                            ObjectSet(cache, route.id, [preload |-> Len(pre) + 1]),
                            Append(pre, preloadRoute(route, "view")))

Mount(routeList, state, cache, pre) ==
    MountFrom(routeList, Len(routeList), state, cache, pre)

\* a variant of the composition that follows: nothing is evicted, wrappers of
\* ids that left the hierarchy stay in the cache
RenderWithoutEviction(state, cache, pre) ==
    Mount(mapHierarchyToRoutes(state.currentMatch.hierarchy, state.routes).list,
          state, cache, pre)

\* a variant of the composition that follows: no wrapper is reused, every
\* cached wrapper is unmounted and every id of the hierarchy gets a new one
RenderWithoutReuse(state, cache, pre) ==
    Mount(mapHierarchyToRoutes(state.currentMatch.hierarchy, state.routes).list,
          state, EmptyObject,
          [i \in 1..Len(pre) |->
              IF \E id \in DOMAIN cache : cache[id].preload = i
              THEN [pre[i] EXCEPT !.isCancelled = TRUE]
              ELSE pre[i]])

\* useCurrentMatchComponents and the commit that follows: wrappers of ids that
\* left the hierarchy are evicted and unmounted (their cleanup calls cancel()),
\* wrappers of ids that stay are reused, new ids get a wrapper that is mounted
Render(state, cache, pre) ==
    LET hierarchy == state.currentMatch.hierarchy
        evicted == {id \in DOMAIN cache : id \notin Ids(hierarchy)}
        kept == [id \in (DOMAIN cache) \ evicted |-> cache[id]]
        cancelled ==
            [i \in 1..Len(pre) |->
                IF \E id \in evicted : cache[id].preload = i
                THEN [pre[i] EXCEPT !.isCancelled = TRUE]
                ELSE pre[i]]
    IN  Mount(mapHierarchyToRoutes(hierarchy, state.routes).list, state, kept, cancelled)

\* setRouterLocationState: setRouterState((oldState) =>
\*     routerStateFromLocation(routerState.routes, stateBuilder(oldState.location), oldState))
changeLocation(state, params) ==
    routerStateFromLocation(state.routes, locationSetter(state.location, params),
                            Def(state))

\* a variant of the hook that follows: no check of the hierarchy, the current
\* match is returned as it is
useCurrentMatchUnchecked(state) ==
    [threw |-> FALSE, returned |-> Def(state.currentMatch)]

\* if (!routerState.currentMatch.hierarchy.length) throw new Error(..);
\* return routerState.currentMatch
useCurrentMatch(state) ==
    IF Len(state.currentMatch.hierarchy) = 0
    THEN [threw |-> TRUE, returned |-> Undefined]
    ELSE [threw |-> FALSE, returned |-> Def(state.currentMatch)]

\* const { params } = useCurrentMatch(); return params
useParams(state) ==
    IF useCurrentMatch(state).threw
    THEN [threw |-> TRUE, returned |-> Undefined]
    ELSE [threw |-> FALSE, returned |-> Def(useCurrentMatch(state).returned.value.params)]

\* a state is rendered without an error: useCurrentMatch, called by
\* useCurrentMatchComponents, finds a match
Renders(result) == result.ok /\ ~useCurrentMatch(result.state).threw

----------------------------------------------------------------------------
(* The router: construction and the operations of the incremental mode *)

\* window.addEventListener('popstate', listener): a listener already in the
\* list is not added again
addEventListener(listeners, listener) ==
    IF \E n \in 1..Len(listeners) : listeners[n] = listener THEN listeners
    ELSE Append(listeners, listener)

removeEventListener(listeners, listener) ==
    SelectSeq(listeners, LAMBDA l : l # listener)

\* a variant of the effect that follows: the previous listener is never removed
SubscribeWithoutRemove(listeners, previous, listener) ==
    [listeners |-> addEventListener(listeners, listener), previous |-> listener]

\* the second effect of useLocationSync, run for popStateListener = listener
\* while the ref holds previous: the previous listener is removed unless it is
\* this one, the listener is added and the ref updated
SubscribePopstate(listeners, previous, listener) ==
    [listeners |-> addEventListener(
                       IF previous # listener
                       THEN removeEventListener(listeners, previous)
                       ELSE listeners,
                       listener),
     previous |-> listener]

\* listeners are named by numbers: the popStateListener of the first render
FirstListener == 1

\* the effect after the first render: useRef(popStateListener) holds the
\* listener itself
FirstSubscription == SubscribePopstate(<< >>, FirstListener, FirstListener)

Routes == addIdsToRoutes(DeclaredRoutes)

\* what the variable holds when no router state was ever built
NoRouterState(location) ==
    [routes |-> << >>, location |-> location,
     currentMatch |-> [hierarchy |-> << >>, params |-> Undefined],
     hierarchyMap |-> << >>, routeStates |-> EmptyObject,
     pathname |-> Undefined, search |-> Undefined]

NoPathRun ==
    [status |-> "idle", index |-> 0, redirected |-> FALSE,
     redirectedBy |-> "none", redirectedAt |-> 0, redirectedGuard |-> 0]

\* <Router routes={..}/> mounted while the browser shows some location:
\* useInitialRouterState, then the first render and its effects
Init ==
    \E pathname \in Pathnames :
    \E result \in {routerStateFromLocation(Routes,
                       [pathname |-> pathname, search |-> << >>], Undefined)} :
    \E rendered \in {Render(result.state, EmptyObject, << >>)} :
        /\ browserLocation = result.state.location
        /\ pushed = FALSE
        /\ popstateListeners = (IF Renders(result) THEN FirstSubscription.listeners ELSE << >>)
        /\ previousPopstateListener = FirstSubscription.previous
        /\ pathRun = NoPathRun
        /\ crashed = ~Renders(result)
        /\ IF Renders(result)
           THEN /\ routerState = result.state
                /\ componentCache = rendered.componentCache
                /\ preloads = rendered.preloads
           ELSE /\ routerState = NoRouterState(result.state.location)
                /\ componentCache = EmptyObject
                /\ preloads = << >>

Running == ~crashed /\ pathRun.status = "idle"

\* the position of the first "?" of url from position i on, Len(url) + 1 if none
RECURSIVE QueryStart(_, _)
QueryStart(url, i) ==
    IF i > Len(url) \/ url[i] = "?" THEN i ELSE QueryStart(url, i + 1)

\* window.location after window.history.pushState(null, '', url): the pathname
\* is the part before the first "?", the search the part from it on, and the
\* search of a url with an empty query is ''
LocationOfUrl(url, q) ==
    [pathname |-> SubSeq(url, 1, q - 1),
     search |-> IF q >= Len(url) THEN << >> ELSE SubSeq(url, q, Len(url))]

pushState(location) ==
    LocationOfUrl(location.pathname \o location.search,
                  QueryStart(location.pathname \o location.search, 1))

\* the effect of useLocationSync that runs when routerState.location changed:
\* nothing when window.location has that pathname and search, else pushState
SyncsByPush(window, location) ==
    ~(window.pathname = location.pathname /\ window.search = location.search)

\* a variant of the dependency list that follows: no list, the effect runs
\* after every commit
LocationEffectAlwaysRuns(locationReplaced) == TRUE

\* useEffect(.., [routerState.location]): the effect runs after a commit only
\* when the router state holds another location object than before
LocationEffectRuns(locationReplaced) == locationReplaced

\* the first effect of useLocationSync after a commit of state while the
\* browser shows window: whether it called pushState, and what the browser
\* shows afterwards
useLocationSync(window, state, locationReplaced) ==
    IF LocationEffectRuns(locationReplaced) /\ SyncsByPush(window, state.location)
    THEN [pushed |-> TRUE, window |-> pushState(state.location)]
    ELSE [pushed |-> FALSE, window |-> window]

\* popStateListener: setRouterLocation((oldState) =>
\*     ({...oldState, ...getRouterLocationFromLocation(location)}))
popStateListener(oldState, location) ==
    [oldState EXCEPT !.pathname = Def(location.pathname),
                     !.search = Def(location.search)]

\* the state update of changeLocation, the render it causes and the history
\* sync effect (pushState when the browser shows another location)
Navigate(params) ==
    \E result \in {changeLocation(routerState, params)} :
    \E rendered \in {Render(result.state, componentCache, preloads)} :
        IF Renders(result)
        THEN /\ Len(rendered.preloads) <= MaxPreloads
             /\ routerState' = result.state
             /\ componentCache' = rendered.componentCache
             /\ preloads' = rendered.preloads
             /\ pushed' = useLocationSync(browserLocation, result.state, TRUE).pushed
             /\ UNCHANGED <<popstateListeners, previousPopstateListener>>
             /\ browserLocation' =
                    useLocationSync(browserLocation, result.state, TRUE).window
             /\ UNCHANGED <<crashed, pathRun>>
        ELSE /\ crashed' = TRUE
             /\ pushed' = FALSE
             /\ UNCHANGED <<popstateListeners, previousPopstateListener>>
             /\ UNCHANGED <<routerState, componentCache, preloads, browserLocation,
                            pathRun>>

\* the arguments changeLocation is called with
LocationParams == [pathname : {Def(x) : x \in Pathnames}, search : {Undefined}]

RedirectParams == [pathname : {Def(x) : x \in RedirectTargets}, search : {Undefined}]

\* changeLocation called by the application (Link, useLocation's setter)
ChangeLocation(params) ==
    /\ Running
    /\ Navigate(params)

\* a guard or resolver of preload i, still pending, calls redirect; for a view's
\* preload redirect is the location setter
RedirectView(i, params) ==
    /\ Running
    /\ preloads[i].owner = "view"
    /\ InFlight(preloads[i])
    /\ Navigate(params)

Locations == [pathname : Pathnames, search : {<< >>}]

\* window dispatches one popstate event: every subscribed listener is called,
\* in the order added
RECURSIVE DispatchPopstate(_, _, _, _)
DispatchPopstate(listeners, n, state, location) ==
    IF n > Len(listeners) THEN state
    ELSE DispatchPopstate(listeners, n + 1, popStateListener(state, location), location)

\* the browser moved to another history entry and fired popstate: the
\* listener updates the router state, the commit's effects follow
PopState(location) ==
    /\ Running
    /\ location # browserLocation
    /\ routerState' = DispatchPopstate(popstateListeners, 1, routerState, location)
    /\ pushed' = useLocationSync(location, routerState', FALSE).pushed
    /\ UNCHANGED <<popstateListeners, previousPopstateListener>>
    /\ browserLocation' = useLocationSync(location, routerState', FALSE).window
    /\ UNCHANGED <<preloads, componentCache, crashed, pathRun>>

\* the promise returned by guard g of preload i resolves
GuardResolve(i, g) ==
    /\ ~crashed
    /\ preloads[i].guards[g] = "inflight"
    /\ preloads' = [preloads EXCEPT ![i].guards = GuardsAfterResolve(@, g)]
    /\ pushed' = FALSE
    /\ UNCHANGED <<popstateListeners, previousPopstateListener>>
    /\ UNCHANGED <<routerState, browserLocation, componentCache, crashed, pathRun>>

\* the promise returned by guard g of preload i rejects
GuardReject(i, g) ==
    /\ ~crashed
    /\ preloads[i].guards[g] = "inflight"
    /\ preloads' = [preloads EXCEPT ![i].guards[g] = "rejected"]
    /\ pushed' = FALSE
    /\ UNCHANGED <<popstateListeners, previousPopstateListener>>
    /\ UNCHANGED <<routerState, browserLocation, componentCache, crashed, pathRun>>

\* a variant of the write that follows: the then-callback of a resolver
\* replaces the group's object by one holding its own key only
GroupDataReplaced(resolvedData, call, g, key) ==
    ObjectSet(EmptyObject, key, ResolverResult(call, g, key))

\* the then-callback of the resolver under key in group g:
\* resolvedData[key] = result, on the object of its group
GroupDataAfterResolve(resolvedData, call, g, key) ==
    ObjectSet(resolvedData, key, ResolverResult(call, g, key))

\* resolver key of group g of preload i resolves
ResolverResolve(i, g, key) ==
    /\ ~crashed
    /\ preloads[i].resolvers[g][key] = "inflight"
    /\ preloads' = [preloads EXCEPT
                       ![i].resolvers[g][key] = "resolved",
                       ![i].resolvedData[g] = GroupDataAfterResolve(@, i, g, key)]
    /\ pushed' = FALSE
    /\ UNCHANGED <<popstateListeners, previousPopstateListener>>
    /\ UNCHANGED <<routerState, browserLocation, componentCache, crashed, pathRun>>

ResolverReject(i, g, key) ==
    /\ ~crashed
    /\ preloads[i].resolvers[g][key] = "inflight"
    /\ preloads' = [preloads EXCEPT ![i].resolvers[g][key] = "rejected"]
    /\ pushed' = FALSE
    /\ UNCHANGED <<popstateListeners, previousPopstateListener>>
    /\ UNCHANGED <<routerState, browserLocation, componentCache, crashed, pathRun>>

\* the then-callback of a view's preloadPromise: setRouteState of useRouteState
CompleteView(i) ==
    /\ Running
    /\ preloads[i].owner = "view"
    /\ preloadPromise(preloads[i]) = "resolved"
    /\ ~preloads[i].wrote
    /\ CompletionWrites(preloads[i])
    /\ routerState' = setRouteState(routerState, preloads[i].route,
                                    CompletedRouteState(preloads[i]))
    /\ preloads' = [preloads EXCEPT ![i].wrote = TRUE]
    /\ pushed' = useLocationSync(browserLocation, routerState', FALSE).pushed
    /\ UNCHANGED <<popstateListeners, previousPopstateListener>>
    /\ browserLocation' = useLocationSync(browserLocation, routerState', FALSE).window
    /\ UNCHANGED <<componentCache, crashed, pathRun>>

PreloadIds == 1..Len(preloads)
GuardIds(i) == 1..Len(preloads[i].guards)
GroupIds(i) == 1..Len(preloads[i].resolvers)

Next ==
    \/ \E params \in LocationParams : ChangeLocation(params)
    \/ \E i \in PreloadIds : \E params \in RedirectParams : RedirectView(i, params)
    \/ \E location \in Locations : PopState(location)
    \/ \E i \in PreloadIds : \E g \in GuardIds(i) : GuardResolve(i, g)
    \/ \E i \in PreloadIds : \E g \in GuardIds(i) : GuardReject(i, g)
    \/ \E i \in PreloadIds : \E g \in GroupIds(i) :
          \E key \in DOMAIN preloads[i].resolvers[g] : ResolverResolve(i, g, key)
    \/ \E i \in PreloadIds : \E g \in GroupIds(i) :
          \E key \in DOMAIN preloads[i].resolvers[g] : ResolverReject(i, g, key)
    \/ \E i \in PreloadIds : CompleteView(i)

Spec == Init /\ [][Next]_vars

----------------------------------------------------------------------------
(* The eager mode: preloadPath(routes, location, redirect).  pathRun.status *)
(* is "running" while the async function awaits the preload of the route at *)
(* position pathRun.index, and afterwards what its promise settled with:     *)
(* "state" (the router state), "null" (redirected) or "rejected".            *)

\* a variant of the loop that follows, without "if (redirected) break"
PathLoopWithoutBreak(routeList, index, run, pre) ==
    IF index <= Len(routeList)
    THEN [pathRun |-> [run EXCEPT !.status = "running", !.index = index],
          preloads |-> Append(pre, preloadRoute(routeList[index], "path"))]
    ELSE IF run.redirected
    THEN [pathRun |-> [run EXCEPT !.status = "null", !.index = index],
          preloads |-> IF Len(pre) > 0
                       THEN [pre EXCEPT ![Len(pre)].isCancelled = TRUE]
                       ELSE pre]
    ELSE [pathRun |-> [run EXCEPT !.status = "state", !.index = index],
          preloads |-> pre]

\* the for loop from iteration index up to its next await or to the return:
\* run is the activation record when the loop is entered
PathLoop(routeList, index, run, pre) ==
    IF index <= Len(routeList) /\ ~run.redirected
    THEN [pathRun |-> [run EXCEPT !.status = "running", !.index = index],
          preloads |-> Append(pre, preloadRoute(routeList[index], "path"))]
    ELSE IF run.redirected
    THEN [pathRun |-> [run EXCEPT !.status = "null", !.index = index],
          preloads |-> IF Len(pre) > 0
                       THEN [pre EXCEPT ![Len(pre)].isCancelled = TRUE]
                       ELSE pre]
    ELSE [pathRun |-> [run EXCEPT !.status = "state", !.index = index],
          preloads |-> pre]

PathRouteList == mapHierarchyToRoutes(routerState.currentMatch.hierarchy,
                                      routerState.routes).list

\* preloadPath is called and runs up to its first await
InitPath ==
    \E pathname \in Pathnames :
    \E result \in {routerStateFromLocation(addIdsToRoutes(EagerRoutes),
                       [pathname |-> pathname, search |-> << >>], Undefined)} :
    \E started \in {PathLoop(mapHierarchyToRoutes(result.state.currentMatch.hierarchy,
                                                  result.state.routes).list,
                              1, NoPathRun, << >>)} :
        /\ browserLocation = result.state.location
        /\ pushed = FALSE
        /\ popstateListeners = << >>
        /\ previousPopstateListener = FirstListener
        /\ componentCache = EmptyObject
        /\ crashed = FALSE
        /\ IF result.ok
           THEN /\ routerState = result.state
                /\ pathRun = started.pathRun
                /\ preloads = started.preloads
           ELSE /\ routerState = NoRouterState(result.state.location)
                /\ pathRun = [NoPathRun EXCEPT !.status = "rejected"]
                /\ preloads = << >>

\* the position of the pending guard of a guard chain, 0 if none is pending
PendingGuard(guards) ==
    IF \E g \in 1..Len(guards) : guards[g] = "inflight"
    THEN CHOOSE g \in 1..Len(guards) : guards[g] = "inflight"
    ELSE 0

\* a pending guard (by = "guard") or resolver (by = "resolver") of preload i
\* calls wrappedRedirect; redirectedBy, redirectedAt and redirectedGuard record
\* the first call
RedirectPath(i, by) ==
    /\ preloads[i].owner = "path"
    /\ IF by = "guard" THEN GuardInFlight(preloads[i]) ELSE ResolverInFlight(preloads[i])
    /\ ~pathRun.redirected
    /\ pathRun' = [pathRun EXCEPT !.redirected = TRUE, !.redirectedBy = by,
                                  !.redirectedAt = i,
                                  !.redirectedGuard =
                                      IF by = "guard"
                                      THEN PendingGuard(preloads[i].guards) ELSE 0]
    /\ pushed' = FALSE
    /\ UNCHANGED <<popstateListeners, previousPopstateListener>>
    /\ UNCHANGED <<routerState, browserLocation, preloads, componentCache, crashed>>

\* the preload awaited by preloadPath resolves: its then-callback writes the
\* route state, then the await returns and the loop goes on
CompletePath(i) ==
    /\ pathRun.status = "running"
    /\ i = pathRun.index
    /\ preloads[i].owner = "path"
    /\ preloadPromise(preloads[i]) = "resolved"
    /\ routerState' = IF CompletionWrites(preloads[i])
                      THEN setRouteState(routerState, preloads[i].route,
                                         CompletedRouteState(preloads[i]))
                      ELSE routerState
    /\ \E continued \in {PathLoop(PathRouteList, i + 1, pathRun,
               [preloads EXCEPT ![i].wrote = CompletionWrites(preloads[i])])} :
           /\ pathRun' = continued.pathRun
           /\ preloads' = continued.preloads
    /\ pushed' = FALSE
    /\ UNCHANGED <<popstateListeners, previousPopstateListener>>
    /\ UNCHANGED <<browserLocation, componentCache, crashed>>

\* the preload awaited by preloadPath rejects: the await throws
RejectPath(i) ==
    /\ pathRun.status = "running"
    /\ i = pathRun.index
    /\ preloads[i].owner = "path"
    /\ preloadPromise(preloads[i]) = "rejected"
    /\ pathRun' = [pathRun EXCEPT !.status = "rejected"]
    /\ pushed' = FALSE
    /\ UNCHANGED <<popstateListeners, previousPopstateListener>>
    /\ UNCHANGED <<routerState, browserLocation, preloads, componentCache, crashed>>

NextPath ==
    \/ \E i \in PreloadIds : \E by \in {"guard", "resolver"} : RedirectPath(i, by)
    \/ \E i \in PreloadIds : \E g \in GuardIds(i) : GuardResolve(i, g)
    \/ \E i \in PreloadIds : \E g \in GuardIds(i) : GuardReject(i, g)
    \/ \E i \in PreloadIds : \E g \in GroupIds(i) :
          \E key \in DOMAIN preloads[i].resolvers[g] : ResolverResolve(i, g, key)
    \/ \E i \in PreloadIds : \E g \in GroupIds(i) :
          \E key \in DOMAIN preloads[i].resolvers[g] : ResolverReject(i, g, key)
    \/ \E i \in PreloadIds : CompletePath(i)
    \/ \E i \in PreloadIds : RejectPath(i)

SpecPath == InitPath /\ [][NextPath]_vars

----------------------------------------------------------------------------
(* Properties *)

Hierarchy == routerState.currentMatch.hierarchy
RouteStates == routerState.routeStates

\* the routes of the hierarchy of the state a step leads to
NextRouteList ==
    mapHierarchyToRoutes(routerState'.currentMatch.hierarchy, routerState'.routes).list

Settled(status) == status \in {"resolved", "rejected"}

Failed(p) ==
    \/ \E g \in 1..Len(p.guards) : p.guards[g] = "rejected"
    \/ \E g \in 1..Len(p.resolvers) : \E key \in DOMAIN p.resolvers[g] :
          p.resolvers[g][key] = "rejected"

\* C1: a navigation from hierarchy [A,B,C] to [A,B,D] keeps the RouteState of A
\* and of B, gives D a freshly initialised RouteState and drops C's entry.
C1_NavigationKeepsSharedAndInitsNew ==
    [][(Hierarchy = <<"A", "B", "C">>
            /\ routerState'.currentMatch.hierarchy = <<"A", "B", "D">>)
        => /\ routerState'.routeStates["A"] = RouteStates["A"]
           /\ routerState'.routeStates["B"] = RouteStates["B"]
           /\ routerState'.routeStates["D"] = FreshRouteState(NextRouteList[3])
           /\ "C" \notin DOMAIN routerState'.routeStates]_vars

\* C2: once a view's preload has been cancelled it performs no RouteState write.
C2_NoWriteAfterCancel ==
    [][\A i \in PreloadIds :
          (preloads[i].owner = "view" /\ preloads[i].isCancelled /\ ~preloads[i].wrote)
              => ~preloads'[i].wrote]_vars

\* C3: no resolver of group g + 1 is invoked before every resolver promise of
\* group g has settled.
C3_GroupsSequential ==
    \A i \in PreloadIds : \A g \in 1..(Len(preloads[i].resolvers) - 1) :
        (\E key \in DOMAIN preloads[i].resolvers[g + 1] :
              preloads[i].resolvers[g + 1][key] # "idle")
            => \A key \in DOMAIN preloads[i].resolvers[g] :
                  Settled(preloads[i].resolvers[g][key])

\* the last group that declares key
LastGroupOf(p, key) ==
    CHOOSE g \in 1..Len(p.resolvers) :
        /\ key \in DOMAIN p.resolvers[g]
        /\ \A h \in (g + 1)..Len(p.resolvers) : key \notin DOMAIN p.resolvers[h]

\* C4: the resolvedData written when a preload completes holds every declared
\* key of every group with the value its resolver returned, the later group's
\* value when two groups declare the key.
C4_ResolvedDataMergesAllGroups ==
    \A i \in PreloadIds :
        (preloads[i].wrote /\ preloads[i].route \in DOMAIN RouteStates)
            => \A g \in 1..Len(preloads[i].resolvers) :
               \A key \in DOMAIN preloads[i].resolvers[g] :
                  LET data == RouteStates[preloads[i].route].resolvedData
                  IN  /\ data.defined
                      /\ key \in DOMAIN data.value
                      /\ data.value[key] =
                            ResolverResult(i, LastGroupOf(preloads[i], key), key)

\* C5: the guards of one route run one after the other in declaration order:
\* guard g + 1 is invoked only after guard g resolved, and no two guards of a
\* preload are pending together.
C5_GuardsSequential ==
    \A i \in PreloadIds :
        /\ \A g \in 1..(Len(preloads[i].guards) - 1) :
              preloads[i].guards[g + 1] # "idle" => preloads[i].guards[g] = "resolved"
        /\ Cardinality({g \in 1..Len(preloads[i].guards) :
                           preloads[i].guards[g] = "inflight"}) <= 1

\* a preload whose second guard is pending after its first guard resolved
C5_Witness ==
    \E i \in PreloadIds :
        /\ Len(preloads[i].guards) >= 2
        /\ preloads[i].guards[1] = "resolved"
        /\ preloads[i].guards[2] = "inflight"

\* C6: no resolver of a route is invoked before every guard of the route has
\* been invoked and has resolved.
C6_GuardsBeforeResolvers ==
    \A i \in PreloadIds :
        (\E g \in 1..Len(preloads[i].resolvers) :
         \E key \in DOMAIN preloads[i].resolvers[g] :
              preloads[i].resolvers[g][key] # "idle")
            => \A g \in 1..Len(preloads[i].guards) : preloads[i].guards[g] = "resolved"

\* the routes without guards and resolvers that enter the hierarchy in a step
EnteringWithoutPreload ==
    {k \in 1..Len(NextRouteList) :
        /\ ~needsPreloading(NextRouteList[k])
        /\ NextRouteList[k].id \notin Ids(Hierarchy)}

\* C7: a route without guards and resolver groups is completed, with empty
\* resolvedData, in the very state in which its id enters the hierarchy.
C7_CompletedOnEntry ==
    [][\A k \in EnteringWithoutPreload :
          LET entry == routerState'.routeStates[NextRouteList[k].id]
          IN  entry.completed /\ entry.resolvedData = Def(EmptyObject)]_vars

\* C7 as the code has it: such a route, when the previous state holds no entry
\* for its id, enters the hierarchy not loading, not completed and with empty
\* resolvedData (it is completed later, by the write of its preload).
C7_NotLoadingNotCompletedOnEntry ==
    [][\A k \in EnteringWithoutPreload :
          NextRouteList[k].id \notin DOMAIN RouteStates
              => routerState'.routeStates[NextRouteList[k].id] =
                    [loading |-> FALSE, resolvedData |-> Def(EmptyObject),
                     completed |-> FALSE]]_vars

\* the catch-all route has just entered the hierarchy by a navigation and its
\* preload has not written yet
C7_Witness ==
    /\ ~crashed
    /\ Hierarchy = <<"W">>
    /\ Len(preloads) > 1
    /\ ~preloads[Len(preloads)].wrote
    /\ preloads[Len(preloads)].route = "W"
    /\ RouteStates["W"] = [loading |-> FALSE, resolvedData |-> Def(EmptyObject),
                           completed |-> FALSE]

\* no preload was started for a route deeper than the one whose guard redirected
NoDeeperRoutePreloaded ==
    \A j \in PreloadIds : j <= pathRun.redirectedAt

\* C8: when a guard calls redirect during preloadPath, no deeper route has a
\* guard or resolver invoked and preloadPath yields null.
C8_RedirectYieldsNull ==
    pathRun.redirectedBy = "guard"
        => /\ NoDeeperRoutePreloaded
           /\ pathRun.status \in {"running", "null"}

\* C8 as the code has it: no deeper route is preloaded and no router state is
\* returned; preloadPath yields null, unless the chain of the route whose guard
\* redirected fails, and then preloadPath rejects.
C8_RedirectYieldsNoState ==
    pathRun.redirectedBy = "guard"
        => /\ NoDeeperRoutePreloaded
           /\ pathRun.status \in {"running", "null", "rejected"}
           /\ pathRun.status = "rejected"
                 => preloadPromise(preloads[pathRun.redirectedAt]) = "rejected"

\* the first guard of the root route redirected, preloadPath returned null and
\* the two deeper routes of the hierarchy were never preloaded
C8_Witness ==
    /\ Hierarchy = <<"A", "B", "C">>
    /\ pathRun.redirectedBy = "guard"
    /\ pathRun.redirectedAt = 1
    /\ pathRun.status = "null"
    /\ Len(preloads) = 1
    /\ preloads[1].guards = <<"resolved", "resolved">>

\* C9: preloadPath preloads one route at a time: nothing of the route at
\* position k + 1 is invoked before the whole guard and resolver chain of the
\* route at position k has completed.
C9_OneRouteAtATime ==
    \A i \in PreloadIds :
        (preloads[i].owner = "path" /\ i < Len(preloads))
            => /\ \A g \in 1..Len(preloads[i].guards) : preloads[i].guards[g] = "resolved"
               /\ \A g \in 1..Len(preloads[i].resolvers) :
                  \A key \in DOMAIN preloads[i].resolvers[g] :
                      preloads[i].resolvers[g][key] = "resolved"

\* C10: after a guard or a resolver of a preload failed, that preload does not
\* set the route's RouteState to completed.
C10_NoCompletionAfterFailure ==
    [][\A i \in PreloadIds :
          (Failed(preloads[i]) /\ ~preloads[i].wrote) => ~preloads'[i].wrote]_vars

\* C11: in every router state the key set of routeStates is the set of route
\* ids of the current matched hierarchy.
C11_RouteStatesKeysAreHierarchy ==
    DOMAIN RouteStates = Ids(Hierarchy)

\* C12: after a popstate notification is handled the router state is in sync
\* with the URL: its location is the browser's location, and its currentMatch
\* and routeStates are those routerStateFromLocation computes for that location.
C12_PopStateSyncsRouterState ==
    [][(\E location \in Locations : PopState(location))
        => \E expected \in {routerStateFromLocation(routerState.routes,
                                browserLocation', Def(routerState))} :
              /\ routerState'.location = browserLocation'
              /\ routerState'.currentMatch = expected.state.currentMatch
              /\ routerState'.routeStates = expected.state.routeStates]_vars

----------------------------------------------------------------------------
(* The router with search strings: a tree of two leaves, navigations that  *)
(* give a pathname, a search string or both, and back/forward moves.       *)

\* the tree given to <Router routes={..}/>:  /s (one guard) | * (nothing to preload)
SearchRoutes ==
    <<Route("S", <<"/", "s">>, << >>, 1, << >>),
      Route("W", <<"*">>, << >>, 0, << >>)>>

PathS == <<"/", "s">>
SearchPathnames == {PathS, PathZ}

\* search strings changeLocation is called with: 'q', '?q', '?' and ''
\* (the pathname may be '' as well)
SearchStrings == {<<"q">>, <<"?", "q">>, <<"?">>, << >>}

SearchParams ==
    [pathname : {Undefined, Def(<< >>)} \cup {Def(x) : x \in SearchPathnames},
     search : {Undefined} \cup {Def(x) : x \in SearchStrings}]

\* what window.location can show
SearchLocations == [pathname : SearchPathnames, search : {<< >>, <<"?", "q">>}]

InitSearch ==
    \E location \in SearchLocations :
    \E result \in {routerStateFromLocation(addIdsToRoutes(SearchRoutes),
                                           location, Undefined)} :
    \E rendered \in {Render(result.state, EmptyObject, << >>)} :
        /\ browserLocation = location
        /\ pushed = FALSE
        /\ popstateListeners = FirstSubscription.listeners
        /\ previousPopstateListener = FirstSubscription.previous
        /\ pathRun = NoPathRun
        /\ crashed = FALSE
        /\ routerState = result.state
        /\ componentCache = rendered.componentCache
        /\ preloads = rendered.preloads

NextSearch ==
    \/ \E params \in SearchParams : ChangeLocation(params)
    \/ \E location \in SearchLocations : PopState(location)
    \/ \E i \in PreloadIds : \E g \in GuardIds(i) : GuardResolve(i, g)
    \/ \E i \in PreloadIds : \E g \in GuardIds(i) : GuardReject(i, g)
    \/ \E i \in PreloadIds : CompleteView(i)

SpecSearch == InitSearch /\ [][NextSearch]_vars

----------------------------------------------------------------------------
(* Properties of location, history and matching *)

\* a step that is a changeLocation call with its render and effects
ChangesLocation ==
    \/ \E params \in LocationParams \cup SearchParams : ChangeLocation(params)
    \/ \E i \in PreloadIds : \E params \in RedirectParams : RedirectView(i, params)

\* C13: after a change of the canonical location a history entry is pushed
\* exactly when the canonical location differs from the browser's location,
\* after the sync the two are equal, and a changeLocation to the location the
\* browser shows pushes nothing.
C13_HistorySync ==
    [][(ChangesLocation /\ ~crashed')
        => /\ pushed' = (routerState'.location # browserLocation)
           /\ browserLocation' = routerState'.location]_vars

----------------------------------------------------------------------------
(* Compilation and matching as functions of their input: the router state  *)
(* computed for a declared tree and a pathname.  A tree has one or two      *)
(* top-level declarations, each a leaf or a parent of one or two leaves.    *)

TopTemplates == {<<"/", "a">>, <<"/", ":", "p">>, <<"*">>}
ChildTemplates == {<<"/", "b">>, <<"/", ":", "q">>, <<"*">>}

\* the children of one declaration: none (a leaf), one or two
ChildLists ==
    {<< >>} \cup {<<x>> : x \in ChildTemplates}
            \cup {<<x, y>> : x \in ChildTemplates, y \in ChildTemplates}

Declarations == [match : TopTemplates, children : ChildLists]

TreeShapes == {<<d>> : d \in Declarations}
                  \cup {<<d, e>> : d \in Declarations, e \in Declarations}

TopNames == <<"1", "2">>
ChildNames == <<<<"1.1", "1.2">>, <<"2.1", "2.2">>>>

\* the Route[] of a shape: declaration i is named TopNames[i], its child j
\* ChildNames[i][j]; no route has guards or resolvers
TreeOf(shape) ==
    [i \in 1..Len(shape) |->
        IF Len(shape[i].children) = 0
        THEN Route(TopNames[i], shape[i].match, << >>, 0, << >>)
        ELSE Parent(TopNames[i], shape[i].match,
                    [j \in 1..Len(shape[i].children) |->
                        Route(ChildNames[i][j], shape[i].children[j], << >>, 0, << >>)],
                    0, << >>)]

PathAB == <<"/", "a", "/", "b">>
MatchPathnames == {PathA, PathAB, PathZ}

\* the inputs: a declared tree (with its ids) and a location; nothing computed yet
InitMatch ==
    \E shape \in TreeShapes : \E pathname \in MatchPathnames :
        /\ routerState =
              [NoRouterState([pathname |-> pathname, search |-> << >>])
                  EXCEPT !.routes = addIdsToRoutes(TreeOf(shape))]
        /\ browserLocation = [pathname |-> pathname, search |-> << >>]
        /\ preloads = << >>
        /\ componentCache = EmptyObject
        /\ crashed = FALSE
        /\ pathRun = NoPathRun
        /\ pushed = FALSE
        /\ popstateListeners = << >>
        /\ previousPopstateListener = FirstListener

\* routerStateFromLocation(routes, location) is called: it returns the router
\* state or throws
ComputeState ==
    /\ ~crashed
    /\ routerState.hierarchyMap = << >>
    /\ \E result \in {routerStateFromLocation(routerState.routes,
                                              routerState.location, Undefined)} :
          IF result.ok
          THEN /\ routerState' = result.state
               /\ UNCHANGED crashed
          ELSE /\ crashed' = TRUE
               /\ UNCHANGED routerState
    /\ UNCHANGED <<browserLocation, preloads, componentCache, pathRun, pushed,
                   popstateListeners, previousPopstateListener>>

NextMatch == ComputeState

SpecMatch == InitMatch /\ [][NextMatch]_vars

\* the declarations of a tree in declaration order (a parent before its
\* children, siblings in the order written), each with the slash-merged
\* template and the ids from the root to it
RECURSIVE DeclaredNodes(_, _, _, _)
DeclaredNodes(routes, i, template, ids) ==
    IF i > Len(routes) THEN << >>
    ELSE LET merged == IF Len(ids) = 0 THEN routes[i].match
                       ELSE mergePaths(template, routes[i].match)
         IN  <<[template |-> merged, ids |-> Append(ids, routes[i].id)]>>
                \o (IF routes[i].hasChildren
                    THEN DeclaredNodes(routes[i].children, 1, merged,
                                       Append(ids, routes[i].id))
                    ELSE << >>)
                \o DeclaredNodes(routes, i + 1, template, ids)

\* the template is the wildcard or its regular expression accepts the pathname
TemplateMatches(template, pathname) ==
    \/ template = <<"*">>
    \/ matchesRegex(pathname, template).matched

\* the positions, in declaration order, of the declarations matching pathname
MatchingNodes(nodes, pathname) ==
    {k \in 1..Len(nodes) : TemplateMatches(nodes[k].template, pathname)}

\* routerStateFromLocation returned a state for the tree and the pathname
Computed == routerState.hierarchyMap # << >>

FirstOf(positions) == CHOOSE k \in positions : \A j \in positions : k <= j

\* C14: when the templates of two declarations match the pathname, the
\* matched hierarchy is the one of the declaration written first, also when
\* the two templates are identical.
C14_FirstDeclaredWins ==
    Computed =>
        \E nodes \in {DeclaredNodes(routerState.routes, 1, << >>, << >>)} :
        \E matching \in {MatchingNodes(nodes, routerState.location.pathname)} :
            Cardinality(matching) >= 2
                => Hierarchy = nodes[FirstOf(matching)].ids

\* the tree declares a leaf whose template is the wildcard, at any depth
RECURSIVE HasWildcardLeaf(_)
HasWildcardLeaf(routes) ==
    \E i \in 1..Len(routes) :
        IF routes[i].hasChildren THEN HasWildcardLeaf(routes[i].children)
        ELSE routes[i].match = <<"*">>

\* routerStateFromLocation was called for the tree and the pathname
Called == Computed \/ crashed

\* C15: for a tree that declares a wildcard leaf at any depth, matching any
\* pathname yields a non-empty hierarchy.
C15_WildcardMatchesEveryPathname ==
    (Called /\ HasWildcardLeaf(routerState.routes))
        => \E m \in {matchHierarchy(routerState.location.pathname,
                                    buildHierarchyMap(routerState.routes))} :
              ~m.threw /\ Len(m.hierarchy) > 0

\* no entry of the hierarchy map built for the tree matches the pathname
NoEntryMatches ==
    \E map \in {buildHierarchyMap(routerState.routes)} :
        \A k \in 1..Len(map) :
            ~TemplateMatches(map[k].key, routerState.location.pathname)

\* C16: when no map entry matches the pathname nothing is thrown: the router
\* state is returned with the empty hierarchy, params null and no routeStates.
C16_NoMatchDoesNotThrow ==
    (Called /\ NoEntryMatches)
        => /\ ~crashed
           /\ routerState.currentMatch = [hierarchy |-> << >>, params |-> Undefined]
           /\ RouteStates = EmptyObject

\* every declaration of the tree has a view or children
RECURSIVE EachHasViewOrChildren(_)
EachHasViewOrChildren(routes) ==
    \A i \in 1..Len(routes) :
        /\ routes[i].hasComponent \/ routes[i].hasChildren
        /\ routes[i].hasChildren => EachHasViewOrChildren(routes[i].children)

\* C17: for a tree whose declarations each have a view or children, and any
\* pathname, computing the router state never raises the 'Hierachy does not
\* match routes object' error.
C17_NoHierarchyMismatch ==
    (Called /\ EachHasViewOrChildren(routerState.routes))
        => routerStateFromLocation(routerState.routes, routerState.location,
                                   Undefined).error # "HierarchyMismatch"

\* C18: the hierarchy map holds, for every declaration of the tree (leaf or
\* not), an entry whose key is the slash-merged template from the root to it
\* and whose value is the list of ids from the root to it.
C18_EntryForEveryNode ==
    Computed =>
        \E nodes \in {DeclaredNodes(routerState.routes, 1, << >>, << >>)} :
            \A n \in 1..Len(nodes) :
                \E k \in 1..Len(routerState.hierarchyMap) :
                    routerState.hierarchyMap[k] =
                        [key |-> nodes[n].template, value |-> nodes[n].ids]

\* the completion write of preload p applied to state
WriteOf(state, p) == setRouteState(state, p.route, CompletedRouteState(p))

\* the state after the navigation nav (a result of changeLocation) and then
\* the completion write of p is the state after the write and then the same
\* changeLocation call (other), with the location and match of the navigation,
\* the route of p completed and every other entry as the navigation computed it
ComposesWith(nav, p, final, other) ==
    /\ other.ok
    /\ other.state = final
    /\ final.location = nav.state.location
    /\ final.currentMatch = nav.state.currentMatch
    /\ final.routeStates[p.route] = CompletedRouteState(p)
    /\ DOMAIN final.routeStates = DOMAIN nav.state.routeStates
    /\ \A id \in DOMAIN final.routeStates \ {p.route} :
          final.routeStates[id] = nav.state.routeStates[id]

\* C19: a completion write of a route that stays in the hierarchy across a
\* changeLocation composes with it: in either order of the two updates the
\* final state has the new location and match, the route completed with its
\* resolved data and every other route's state as the navigation computed it.
C19_CompletionComposesWithNavigation ==
    \A i \in PreloadIds : \A params \in LocationParams :
        (/\ preloads[i].owner = "view"
         /\ preloadPromise(preloads[i]) = "resolved"
         /\ ~preloads[i].wrote
         /\ preloads[i].route \in Ids(Hierarchy))
            => \E nav \in {changeLocation(routerState, params)} :
                  (nav.ok /\ preloads[i].route \in Ids(nav.state.currentMatch.hierarchy))
                      => ComposesWith(nav, preloads[i], WriteOf(nav.state, preloads[i]),
                             changeLocation(WriteOf(routerState, preloads[i]), params))

\* B was mounted before a navigation brought D into the hierarchy, B stayed,
\* and the completion write of B's preload has been applied
C19_Witness ==
    /\ Hierarchy = <<"A", "B", "D">>
    /\ \E i, j \in PreloadIds :
          /\ i < j
          /\ preloads[i].route = "B" /\ preloads[i].wrote /\ ~preloads[i].isCancelled
          /\ preloads[j].route = "D"
    /\ RouteStates["B"].completed
    /\ ~RouteStates["D"].completed

\* the completion writes of two preloads of distinct routes, both due, give
\* the same state in either order
WritesCommute ==
    \A i, j \in PreloadIds :
        (/\ preloads[i].route # preloads[j].route
         /\ preloadPromise(preloads[i]) = "resolved" /\ ~preloads[i].wrote
         /\ preloadPromise(preloads[j]) = "resolved" /\ ~preloads[j].wrote)
            => WriteOf(WriteOf(routerState, preloads[i]), preloads[j])
                  = WriteOf(WriteOf(routerState, preloads[j]), preloads[i])

\* C20: a completion write changes nothing but the routeStates entry of its
\* own route id: location, currentMatch, routes, hierarchyMap and the entry of
\* every other id stay as they are, and the writes of two distinct routes give
\* the same state in either order.
C20_CompletionWritesOwnEntryOnly ==
    [][/\ \A i \in PreloadIds :
             CompleteView(i)
                 => /\ routerState'.location = routerState.location
                    /\ routerState'.currentMatch = routerState.currentMatch
                    /\ routerState'.routes = routerState.routes
                    /\ routerState'.hierarchyMap = routerState.hierarchyMap
                    /\ routerState'.routeStates[preloads[i].route]
                          = CompletedRouteState(preloads[i])
                    /\ DOMAIN routerState'.routeStates
                          = DOMAIN RouteStates \cup {preloads[i].route}
                    /\ \A id \in DOMAIN RouteStates \ {preloads[i].route} :
                          routerState'.routeStates[id] = RouteStates[id]
       /\ WritesCommute]_vars

\* the completion writes of the preloads of two distinct routes of the
\* hierarchy have both been applied
C20_Witness ==
    \E i, j \in PreloadIds :
        /\ preloads[i].route = "B" /\ preloads[i].wrote
        /\ preloads[j].route = "C" /\ preloads[j].wrote
        /\ Hierarchy = <<"A", "B", "C">>
        /\ RouteStates["B"].completed
        /\ RouteStates["C"].completed
        /\ ~RouteStates["A"].completed

----------------------------------------------------------------------------
(* Properties of redirects, mounting and the view cache *)

StartedPreloads == (Len(preloads) + 1)..Len(preloads')

\* a guard or resolver that was invoked is not invoked again
InvokedOnce(before, after) ==
    /\ \A g \in 1..Len(before.guards) :
          before.guards[g] # "idle" =>
              after.guards[g] \in {before.guards[g], "resolved", "rejected"}
    /\ \A g \in 1..Len(before.resolvers) : \A key \in DOMAIN before.resolvers[g] :
          before.resolvers[g][key] # "idle" =>
              after.resolvers[g][key] \in {before.resolvers[g][key], "resolved", "rejected"}

Supplied(field) == field.defined /\ Len(field.value) > 0

\* the location changeLocation(params) is to produce from current: a supplied
\* pathname replaces the pathname, a supplied search (with its "?") replaces
\* the search, a field that is not supplied stays
MergedLocation(current, params) ==
    [pathname |-> IF Supplied(params.pathname) THEN params.pathname.value
                  ELSE current.pathname,
     search |-> IF Supplied(params.search)
                THEN (IF params.search.value[1] = "?" THEN params.search.value
                      ELSE <<"?">> \o params.search.value)
                ELSE current.search]

\* C23: changeLocation merges the supplied fields into the current location,
\* a field that is not supplied keeps its value, and the new router state is
\* routerStateFromLocation of the merged location with the latest state as
\* previous.
C23_ChangeLocationMerges ==
    [][\A params \in SearchParams :
          (/\ params.pathname.defined => Supplied(params.pathname)
           /\ params.search.defined => Supplied(params.search)
           /\ routerState'.location = locationSetter(routerState.location, params)
           /\ ChangeLocation(params))
              => /\ routerState'.location = MergedLocation(routerState.location, params)
                 /\ routerState' =
                       routerStateFromLocation(routerState.routes,
                           MergedLocation(routerState.location, params),
                           Def(routerState)).state]_vars

\* a search-only change gave the canonical search "?" (which no browser URL
\* shows) and the location has the pathname /s of the route S
C23_Witness ==
    /\ pushed
    /\ routerState.location = [pathname |-> PathS, search |-> <<"?">>]
    /\ Hierarchy = <<"S">>
    /\ browserLocation = [pathname |-> PathS, search |-> << >>]

\* C24: the view cache holds a wrapper for exactly the ids of the active
\* hierarchy; over a navigation the wrapper of an id that left is evicted and
\* the wrapper of an id that stays is the one that was cached before.
C24_CacheFollowsHierarchy ==
    [][/\ DOMAIN componentCache = Ids(Hierarchy)
       /\ DOMAIN componentCache' = Ids(routerState'.currentMatch.hierarchy)
       /\ \A id \in Ids(Hierarchy) :
             IF id \in Ids(routerState'.currentMatch.hierarchy)
             THEN componentCache'[id] = componentCache[id]
             ELSE id \notin DOMAIN componentCache']_vars

\* after a navigation from /a/b/c to /a/b/d the cache holds the wrappers of A
\* and B mounted at the start, a later wrapper for D, and none for C
C24_Witness ==
    /\ Hierarchy = <<"A", "B", "D">>
    /\ DOMAIN componentCache = {"A", "B", "D"}
    /\ componentCache["B"].preload = 2
    /\ componentCache["A"].preload = 3
    /\ componentCache["D"].preload = 4
    /\ preloads[1].route = "C"
    /\ preloads[1].isCancelled

----------------------------------------------------------------------------
(* The rendered output: the list useCurrentMatchComponents returns and the  *)
(* element RouterConsumer builds from it.  An element is the wrapper of a   *)
(* route id with its child element; NoElement is null.                      *)

NoElement == [isElement |-> FALSE]

\* a variant of the list that follows, without componentsList.reverse()
ComponentsNotReversed(routeList) ==
    [i \in 1..Len(routeList) |-> routeList[i].id]

\* componentsList = routeList.map(..); componentsList.reverse(): the wrappers
\* (named by their route ids) from the leaf to the root
Components(routeList) ==
    [i \in 1..Len(routeList) |-> routeList[Len(routeList) + 1 - i].id]

\* for (const Component of components)
\*     componentToRender = <Component>{componentToRender}</Component>
RECURSIVE RenderFrom(_, _, _)
RenderFrom(components, i, componentToRender) ==
    IF i > Len(components) THEN componentToRender
    ELSE RenderFrom(components, i + 1,
             [isElement |-> TRUE, type |-> components[i], child |-> componentToRender])

\* what RouterConsumer returns for a router state
RouterConsumer(state) ==
    RenderFrom(Components(mapHierarchyToRoutes(state.currentMatch.hierarchy,
                                               state.routes).list),
               1, NoElement)

\* the element k levels below element (element itself for k = 0)
RECURSIVE Descendant(_, _)
Descendant(element, k) ==
    IF k = 0 THEN element ELSE Descendant(element.child, k - 1)

\* C25: the rendered output nests along the hierarchy [r1..rn]: the wrapper
\* of r1 is outermost, the wrapper of r(k+1) is the child of the wrapper of
\* r(k), and the wrapper of the leaf rn has no child.
C25_NestingFollowsHierarchy ==
    (~crashed /\ Len(Hierarchy) > 0) =>
        \E output \in {RouterConsumer(routerState)} :
            /\ \A k \in 1..Len(Hierarchy) :
                  /\ Descendant(output, k - 1).isElement
                  /\ Descendant(output, k - 1).type = Hierarchy[k]
            /\ Descendant(output, Len(Hierarchy)) = NoElement

\* the router renders a hierarchy of three routes after a navigation
C25_Witness ==
    /\ ~crashed
    /\ Hierarchy = <<"A", "B", "C">>
    /\ Len(preloads) > 3
    /\ RouterConsumer(routerState).type = "A"
    /\ RouterConsumer(routerState).child.child.type = "C"

\* the keys of group g of preload p whose resolver has resolved
ResolvedKeys(p, g) ==
    {key \in DOMAIN p.resolvers[g] : p.resolvers[g][key] = "resolved"}

\* C26: within one resolver group the object of the group holds exactly the
\* keys whose resolvers have resolved, each with its own result, so two
\* resolvers keyed x and y are both there once both have settled, whichever
\* settled first; and when the group is the one the route completes with,
\* the route state's resolvedData holds both.
C26_GroupHoldsEveryResolvedKey ==
    \A i \in 1..Len(preloads) :
        /\ \A g \in 1..Len(preloads[i].resolvers) :
              /\ DOMAIN preloads[i].resolvedData[g] = ResolvedKeys(preloads[i], g)
              /\ \A key \in ResolvedKeys(preloads[i], g) :
                    preloads[i].resolvedData[g][key] = ResolverResult(i, g, key)
        /\ (preloads[i].wrote /\ Len(preloads[i].resolvers) = 1) =>
              /\ RouteStates[preloads[i].route].resolvedData.defined
              /\ \A key \in DOMAIN preloads[i].resolvers[1] :
                    /\ key \in DOMAIN RouteStates[preloads[i].route].resolvedData.value
                    /\ RouteStates[preloads[i].route].resolvedData.value[key]
                           = ResolverResult(i, 1, key)

\* route C, whose one group declares x and y, has completed with both
C26_Witness ==
    \E i \in 1..Len(preloads) :
        /\ preloads[i].route = "C"
        /\ preloads[i].wrote
        /\ DOMAIN preloads[i].resolvers[1] = {"x", "y"}
        /\ DOMAIN RouteStates["C"].resolvedData.value = {"x", "y"}

----------------------------------------------------------------------------
(* Template merging as a function of its input: the hierarchy map compiled  *)
(* for a parent declaration with one child, for every way of writing the    *)
(* slash between the two templates, the child with or without a view.       *)

ParentTemplates == {<<"/", "a", "/">>, <<"/", "a">>, <<"/", ":", "p", "/">>, <<"/", ":", "p">>}
LeafTemplates == {<<"/", "b">>, <<"b">>, <<"/", ":", "q">>, <<":", "q">>}
MergePathnames == {PathA, PathAB, PathABC, PathZ}

\* a declaration without children, with a view (component) or without one
Leaf(name, match, component) ==
    [Route(name, match, << >>, 0, << >>) EXCEPT !.hasComponent = component]

\* the inputs: one parent with one child (declared with or without a view),
\* and a location; nothing computed yet
InitMerge ==
    \E left \in ParentTemplates : \E right \in LeafTemplates :
        \E pathname \in MergePathnames : \E component \in BOOLEAN :
            /\ routerState =
                  [NoRouterState([pathname |-> pathname, search |-> << >>])
                      EXCEPT !.routes = addIdsToRoutes(
                          <<Parent("1", left,
                                   <<Leaf("1.1", right, component)>>,
                                   0, << >>)>>)]
            /\ browserLocation = [pathname |-> pathname, search |-> << >>]
            /\ preloads = << >>
            /\ componentCache = EmptyObject
            /\ crashed = FALSE
            /\ pathRun = NoPathRun
            /\ pushed = FALSE
            /\ popstateListeners = << >>
            /\ previousPopstateListener = FirstListener

\* the first render of a computed router state: RouterConsumer calls
\* useCurrentMatchComponents, which reads the match with useCurrentMatch; an
\* error thrown there ends the render, else the wrappers are built and mounted
FirstRender ==
    /\ ~crashed
    /\ routerState.hierarchyMap # << >>
    /\ componentCache = EmptyObject
    /\ IF useCurrentMatch(routerState).threw
       THEN /\ crashed' = TRUE
            /\ UNCHANGED <<componentCache, preloads>>
       ELSE /\ \E rendered \in {Render(routerState, componentCache, preloads)} :
                  /\ componentCache' = rendered.componentCache
                  /\ preloads' = rendered.preloads
            /\ UNCHANGED crashed
    /\ UNCHANGED <<routerState, browserLocation, pathRun, pushed,
                   popstateListeners, previousPopstateListener>>

NextMerge == ComputeState \/ FirstRender

SpecMerge == InitMerge /\ [][NextMerge]_vars

\* a template without its one trailing slash, and without its one leading slash
WithoutTrailingSlash(left) ==
    IF Len(left) > 0 /\ left[Len(left)] = "/" THEN SubSeq(left, 1, Len(left) - 1)
    ELSE left

WithoutLeadingSlash(right) ==
    IF Len(right) > 0 /\ right[1] = "/" THEN Tail(right) ELSE right

\* the templates the compiled tree was declared with, and the key
\* buildHierarchyMap gave the child: mergePaths(parent template, child template)
DeclaredLeft == routerState.routes[1].match
DeclaredRight == routerState.routes[1].children[1].match
MergedKey == routerState.hierarchyMap[1].key

\* C27: mergePaths joins the parent's and the child's template with exactly
\* one "/" between them, whatever single trailing slash the parent and single
\* leading slash the child has: "/a/" with "/b", "/a" with "b", "/a/" with
\* "b" and "/a" with "/b" all give "/a/b".
C27_MergePathsOneSlash ==
    (routerState.hierarchyMap # << >>) =>
        /\ MergedKey = WithoutTrailingSlash(DeclaredLeft) \o <<"/">>
                           \o WithoutLeadingSlash(DeclaredRight)
        /\ (/\ DeclaredLeft \in {<<"/", "a", "/">>, <<"/", "a">>}
            /\ DeclaredRight \in {<<"/", "b">>, <<"b">>})
               => MergedKey = <<"/", "a", "/", "b">>

\* the tree declared "/a/" over "/b" is compiled and /a/b matches the child
C27_Witness ==
    /\ routerState.hierarchyMap # << >>
    /\ DeclaredLeft = <<"/", "a", "/">>
    /\ DeclaredRight = <<"/", "b">>
    /\ MergedKey = PathAB
    /\ Hierarchy = <<"1", "1.1">>

\* the ids of the declarations of a tree that have neither a view nor children
RECURSIVE BareDeclarations(_)
BareDeclarations(routes) ==
    UNION {(IF ~routes[i].hasComponent /\ ~routes[i].hasChildren
            THEN {routes[i].id} ELSE {})
               \cup (IF routes[i].hasChildren
                     THEN BareDeclarations(routes[i].children) ELSE {})
           : i \in 1..Len(routes)}

\* C28: a declaration with neither a view nor children is rejected when the
\* tree is compiled: no router state is computed from such a tree (its
\* hierarchy map stays empty), so no entry of a hierarchy map leads to the
\* declaration.
C28_BareDeclarationRejected ==
    (BareDeclarations(routerState.routes) # {}) =>
        /\ routerState.hierarchyMap = << >>
        /\ \A k \in 1..Len(routerState.hierarchyMap) :
              \A n \in 1..Len(routerState.hierarchyMap[k].value) :
                  routerState.hierarchyMap[k].value[n]
                      \notin BareDeclarations(routerState.routes)

\* C29: reading the current match or the current params while the matched
\* hierarchy is empty raises an error and returns no value, and the render
\* that reads them ends with that error.
C29_ReadingEmptyMatchThrows ==
    /\ [](Len(Hierarchy) = 0
            => /\ useCurrentMatch(routerState).threw
               /\ ~useCurrentMatch(routerState).returned.defined
               /\ useParams(routerState).threw
               /\ ~useParams(routerState).returned.defined)
    /\ [][(FirstRender /\ Len(Hierarchy) = 0)
            => (crashed' /\ componentCache' = EmptyObject)]_vars

\* a router state computed with no match was rendered and the render threw
C29_Witness ==
    /\ crashed
    /\ routerState.hierarchyMap # << >>
    /\ Len(Hierarchy) = 0
    /\ useCurrentMatch(routerState).threw

\* the ids of a tagged tree, a parent before its children
RECURSIVE TreeIds(_, _)
TreeIds(routes, i) ==
    IF i > Len(routes) THEN << >>
    ELSE <<routes[i].id>>
            \o (IF routes[i].hasChildren THEN TreeIds(routes[i].children, 1) ELSE << >>)
            \o TreeIds(routes, i + 1)

\* the same tree at a later call of addIdsToRoutes: nanoid() would generate
\* other values than it did the first time
RECURSIVE AtLaterCall(_)
AtLaterCall(routes) ==
    [i \in 1..Len(routes) |->
        [routes[i] EXCEPT !.name = @ \o "'",
                          !.children = AtLaterCall(@)]]

\* C30: route ids are stable for the session: no transition changes the
\* id-tagged tree of the router state, the ids of the tree are pairwise
\* distinct, and tagging the tagged tree again keeps every id.
C30_IdsStable ==
    /\ [](\E ids \in {TreeIds(routerState.routes, 1)} :
            /\ \A m, n \in 1..Len(ids) : ids[m] = ids[n] => m = n
            /\ \A n \in 1..Len(ids) : ids[n] # ""
            /\ TreeIds(addIdsToRoutes(AtLaterCall(routerState.routes)), 1) = ids)
    /\ [][routerState'.routes = routerState.routes]_vars

\* a session with a navigation and a completed preload, still on the tree
\* tagged at construction
C30_Witness ==
    /\ ~crashed
    /\ Len(preloads) > 2
    /\ \E i \in 1..Len(preloads) : preloads[i].wrote
    /\ TreeIds(routerState.routes, 1) = <<"A", "B", "C", "D", "W">>
    /\ Hierarchy = <<"A", "B", "D">>

----------------------------------------------------------------------------
(* Progress of a route's preload.  A then-callback of a resolved promise is *)
(* a queued microtask: it runs unless the render has thrown, so the         *)
(* completion of every preload is weakly fair.                              *)

SpecLive ==
    /\ Init
    /\ [][Next]_vars
    /\ \A i \in 1..MaxPreloads : WF_vars(i \in PreloadIds /\ CompleteView(i))

\* the wrapper that started preload i is mounted: its route is in the
\* hierarchy and the cache holds the wrapper
Mounted(i) ==
    /\ i \in PreloadIds
    /\ preloads[i].owner = "view"
    /\ preloads[i].route \in Ids(Hierarchy)
    /\ preloads[i].route \in DOMAIN componentCache
    /\ componentCache[preloads[i].route].preload = i

\* C31: in incremental mode, a route whose view is mounted and whose guards
\* and resolvers have all resolved, and whose completion is not yet written,
\* eventually has the route state {loading: false, completed: true} with the
\* data its preload resolved with, unless it leaves the hierarchy (its view
\* is unmounted) or a render throws before.
C31_PreloadCompletes ==
    \A i \in 1..MaxPreloads :
        (/\ Mounted(i)
         /\ preloadPromise(preloads[i]) = "resolved"
         /\ ~preloads[i].wrote)
            ~> (\/ crashed
                \/ ~Mounted(i)
                \/ RouteStates[preloads[i].route] = CompletedRouteState(preloads[i]))

\* route C, mounted, has completed with the data of its resolver
C31_Witness ==
    \E i \in PreloadIds :
        /\ Mounted(i)
        /\ preloads[i].route = "C"
        /\ preloads[i].wrote
        /\ RouteStates["C"] =
              [loading |-> FALSE, completed |-> TRUE,
               resolvedData |-> Def(("x" :> ResolverResult(i, 1, "x")))]

----------------------------------------------------------------------------
(* Properties of the popstate handling and of the search string *)

\* the step is the handling of one popstate notification
HandlesPopState == \E location \in Locations \cup SearchLocations : PopState(location)

\* C32: handling a back/forward notification pushes no history entry: the
\* handling step itself pushes nothing and leaves the browser where it moved
\* to, and in every state between the notification and the next
\* changeLocation call (the router state still carries the pathname the
\* listener wrote) the step just taken pushed nothing.
C32_PopStateNeverPushes ==
    /\ [](routerState.pathname.defined => ~pushed)
    /\ [][HandlesPopState
            => /\ ~pushed'
               /\ browserLocation'.pathname = routerState'.pathname.value
               /\ browserLocation'.search = routerState'.search.value]_vars

\* after a popstate, and a completion that re-rendered the router, the browser
\* shows another location than the canonical one and nothing was pushed
C32_Witness ==
    /\ routerState.pathname.defined
    /\ browserLocation # routerState.location
    /\ browserLocation.pathname = routerState.pathname.value
    /\ ~pushed
    /\ \E i \in PreloadIds : preloads[i].wrote

----------------------------------------------------------------------------
(* The popstate subscription as a function of the renders: besides the      *)
(* operations of the router, a render may come with a new popStateListener  *)
(* (useCallback returned a new function because a dependency changed), and  *)
(* the subscribing effect runs for it.                                      *)

MaxListeners == 3

\* a commit whose popStateListener is a new function: the effect with the
\* dependency [popStateListener] runs
RenderNewListener ==
    /\ Running
    /\ previousPopstateListener < MaxListeners
    /\ \E subscribed \in {SubscribePopstate(popstateListeners,
                                            previousPopstateListener,
                                            previousPopstateListener + 1)} :
          /\ popstateListeners' = subscribed.listeners
          /\ previousPopstateListener' = subscribed.previous
    /\ pushed' = FALSE
    /\ UNCHANGED <<routerState, browserLocation, preloads, componentCache, crashed,
                   pathRun>>

NextListener ==
    \/ \E params \in SearchParams : ChangeLocation(params)
    \/ \E location \in SearchLocations : PopState(location)
    \/ \E i \in PreloadIds : \E g \in GuardIds(i) : GuardResolve(i, g)
    \/ \E i \in PreloadIds : CompleteView(i)
    \/ RenderNewListener

SpecListener == InitSearch /\ [][NextListener]_vars

\* C33: from the first subscription on exactly one popstate listener of the
\* router is subscribed, the one of the latest render: a new listener
\* replaces the previous one, the first subscription removes nothing, and a
\* back/forward notification is handled by the router exactly once.
C33_OneListener ==
    /\ [](/\ Len(popstateListeners) = 1
          /\ popstateListeners[1] = previousPopstateListener)
    /\ [][RenderNewListener
            => /\ popstateListeners' = <<previousPopstateListener + 1>>
               /\ previousPopstateListener' = previousPopstateListener + 1]_vars
    /\ [][HandlesPopState
            => routerState' = popStateListener(routerState, browserLocation')]_vars

\* the listener was replaced twice and a notification was handled afterwards
C33_Witness ==
    /\ popstateListeners = <<MaxListeners>>
    /\ previousPopstateListener = MaxListeners
    /\ routerState.pathname.defined
    /\ browserLocation.pathname = routerState.pathname.value
    /\ browserLocation # routerState.location

----------------------------------------------------------------------------
(* Properties of the eager walk and of the route states *)

\* C34: when preloadPath returns a router state, every route id of the
\* matched hierarchy has in it a route state with completed: true and
\* loading: false, routes without guards and resolvers included; and while
\* the walk is at position k, the routes before k have been written already.
C34_ReturnedStateIsCompleted ==
    /\ pathRun.status = "state" =>
          /\ Ids(Hierarchy) = DOMAIN RouteStates
          /\ \A id \in Ids(Hierarchy) :
                RouteStates[id].completed /\ ~RouteStates[id].loading
    /\ pathRun.status \in {"running", "state"} =>
          \A k \in 1..(pathRun.index - 1) :
              /\ preloads[k].route = Hierarchy[k]
              /\ preloads[k].wrote
              /\ RouteStates[Hierarchy[k]].completed
              /\ ~RouteStates[Hierarchy[k]].loading

\* preloadPath returned the state for /a/b/d, whose leaf D has nothing to preload
C34_Witness ==
    /\ pathRun.status = "state"
    /\ Hierarchy = <<"A", "B", "D">>
    /\ RouteStates["D"].completed
    /\ RouteStates["B"].completed
    /\ RouteStates["A"].completed

----------------------------------------------------------------------------
(* A route with data that is left and entered again: the router over a tree *)
(* of a leaf with one resolver and a catch-all.                             *)

\* the tree given to <Router routes={..}/>:  /s (one resolver, x) | * (nothing to preload)
DataRoutes ==
    <<Route("S", <<"/", "s">>, << >>, 0, <<{"x"}>>),
      Route("W", <<"*">>, << >>, 0, << >>)>>

DataParams == [pathname : {Def(x) : x \in SearchPathnames}, search : {Undefined}]

InitData ==
    \E pathname \in SearchPathnames :
    \E result \in {routerStateFromLocation(addIdsToRoutes(DataRoutes),
                       [pathname |-> pathname, search |-> << >>], Undefined)} :
    \E rendered \in {Render(result.state, EmptyObject, << >>)} :
        /\ browserLocation = result.state.location
        /\ pushed = FALSE
        /\ popstateListeners = FirstSubscription.listeners
        /\ previousPopstateListener = FirstSubscription.previous
        /\ pathRun = NoPathRun
        /\ crashed = FALSE
        /\ routerState = result.state
        /\ componentCache = rendered.componentCache
        /\ preloads = rendered.preloads

NextData ==
    \/ \E params \in DataParams : ChangeLocation(params)
    \/ \E i \in PreloadIds : \E g \in GroupIds(i) :
          \E key \in DOMAIN preloads[i].resolvers[g] : ResolverResolve(i, g, key)
    \/ \E i \in PreloadIds : \E g \in GroupIds(i) :
          \E key \in DOMAIN preloads[i].resolvers[g] : ResolverReject(i, g, key)
    \/ \E i \in PreloadIds : CompleteView(i)

SpecData == InitData /\ [][NextData]_vars

\* C35: in every reachable state a completed route state is not loading; an
\* entry created when its id enters routeStates has loading =
\* needsPreloading(route) and completed = false; and an entry that is
\* completed stays completed with the same resolvedData for as long as its
\* id remains in the hierarchy.
C35_RouteStateLifecycle ==
    /\ [](\A id \in DOMAIN RouteStates :
             RouteStates[id].completed => ~RouteStates[id].loading)
    /\ [][(~crashed')
            => \A k \in 1..Len(NextRouteList) :
                  NextRouteList[k].id \notin DOMAIN RouteStates
                      => routerState'.routeStates[NextRouteList[k].id]
                             = FreshRouteState(NextRouteList[k])]_vars
    /\ [][\A id \in Ids(Hierarchy) \cap Ids(routerState'.currentMatch.hierarchy) :
             (id \in DOMAIN RouteStates /\ RouteStates[id].completed)
                 => /\ routerState'.routeStates[id].completed
                    /\ routerState'.routeStates[id].resolvedData
                           = RouteStates[id].resolvedData]_vars

\* C36: in preloadPath, once a guard or resolver of the route at position k
\* has failed, preloadPath returns neither a router state nor the redirected
\* signal (it is still awaiting position k, or has rejected), and no guard or
\* resolver of a route after position k is invoked.
C36_FailureStopsTheWalk ==
    \A k \in PreloadIds :
        (preloads[k].owner = "path" /\ Failed(preloads[k]))
            => /\ pathRun.status \in {"running", "rejected"}
               /\ pathRun.index = k
               /\ Len(preloads) = k

\* C37: the resolvedData of every route state in every reachable state is a
\* record (possibly empty), never undefined; a route without resolver groups
\* completes with the empty record.
C37_ResolvedDataIsARecord ==
    \A id \in DOMAIN RouteStates :
        /\ RouteStates[id].resolvedData.defined
        /\ \A i \in PreloadIds :
              (preloads[i].route = id /\ Len(preloads[i].resolvers) = 0
                  /\ RouteStates[id].completed)
                  => RouteStates[id].resolvedData = Def(EmptyObject)

\* the search string without the "?" it begins with, if it begins with one
WithoutQuestionMark(search) ==
    IF Len(search) > 0 /\ search[1] = "?" THEN Tail(search) ELSE search

\* C38: changeLocation normalises the search string: a non-empty search given
\* with or without its leading "?" gives the same location.search, which is
\* "?" followed by what was given after the "?"; normalising a normalised
\* string changes nothing; and an empty search or pathname is as if not
\* supplied, the current value is kept.
C38_SearchNormalisation ==
    /\ [](\A search \in SearchStrings \ {<< >>} :
             /\ buildSearchString(search)
                    = buildSearchString(<<"?">> \o WithoutQuestionMark(search))
             /\ buildSearchString(buildSearchString(search)) = buildSearchString(search))
    /\ [][\A params \in SearchParams :
             (/\ routerState'.location = locationSetter(routerState.location, params)
              /\ ChangeLocation(params))
                 => /\ IF Supplied(params.search)
                       THEN routerState'.location.search
                                = <<"?">> \o WithoutQuestionMark(params.search.value)
                       ELSE routerState'.location.search = routerState.location.search
                    /\ ~Supplied(params.pathname)
                          => routerState'.location.pathname
                                 = routerState.location.pathname]_vars

\* changeLocation({search: 'q'}) or ({search: '?q'}) from a location without
\* search: the canonical search is "?q" and it was pushed
C38_Witness ==
    /\ pushed
    /\ routerState.location.search = <<"?", "q">>
    /\ browserLocation.search = <<"?", "q">>
    /\ Hierarchy = <<"S">>
    /\ ~routerState.pathname.defined

====
